---- MODULE Spec2Model ----
(***************************************************************************)
(* Rumi's vector-store wrapper (src/storage/qdrant_client.py) and the blog *)
(* ingestion pipeline (scripts/sync_blog_to_qdrant.py) as a state machine. *)
(*                                                                         *)
(* The Qdrant server is modelled by the operators qdrant_*: a collection   *)
(* is a set of points keyed by id, every remote call raises when the       *)
(* collection is missing, and any remote call may also fail by itself      *)
(* (the fault argument of each operation).                                 *)
(***************************************************************************)
EXTENDS Integers, Sequences, FiniteSets, TLC

VARIABLES
  collections,  \* names of the collections the Qdrant server holds
  points,       \* the points of collection rumi_content: [id, vector, payload]
  ret,          \* the last wrapper call: its name, arguments and result, and
                \* for a writing call the points (pre) and whether the
                \* collection existed when it was made
  sync          \* the runs of sync_blog_to_qdrant: worker -> its local variables

storeVars == <<collections, points>>
vars == <<collections, points, ret, sync>>

(***************************************************************************)
(* Python values.  Optional[T] is a sequence of length 0 (None) or 1.      *)
(***************************************************************************)
None == <<>>
Some(x) == <<x>>

\* `if x:` for an Optional[str] or Optional[List[str]]: None, "" and [] are falsy.
Truthy(opt, empty) == opt # None /\ opt[1] # empty

(***************************************************************************)
(* RumiQdrantClient.__init__                                               *)
(***************************************************************************)
collection_name == "rumi_content"
vector_size == 1536

\* Mutant of string_to_uuid: an id that is new at every call (uuid4 in place
\* of uuid5), here numbered by the points stored so far.
string_to_uuid_fresh(text) == <<"uuid4", Cardinality(points)>>

\* Mutant of string_to_uuid: the text is left out of the hash, so every key
\* gets the id of the empty name.
string_to_uuid_const(text) == "4ebd0208-8328-5d69-8c44-ec50939c0967"

(***************************************************************************)
(* string_to_uuid: uuid.uuid5(uuid.NAMESPACE_DNS, text), tabulated with    *)
(* the values Python computes for the chunk keys the model uses.           *)
(***************************************************************************)
string_to_uuid(text) ==
  CASE text = "blog:a:chunk_0" -> "3f5fcd8c-8fe6-572b-a5e2-7d36b44ff866"
    [] text = "blog:a:chunk_1" -> "c82c8200-4ee5-5c8e-8a74-fe30d8c9f604"
    [] text = "blog:a:chunk_2" -> "db06d76c-04b3-56ca-bdaf-c756320379f1"
    [] text = "blog:a:chunk_3" -> "e313efe3-37f1-57dc-8514-158ad4dac935"
    [] text = "blog:a:chunk_4" -> "c5308fe3-96ec-589a-9b62-42b1df35acba"
    [] text = "blog:b:chunk_0" -> "51a097c8-bab9-582c-9733-f62ca027d7be"
    [] text = "blog:b:chunk_1" -> "e8a39b0f-cb42-5dc0-9532-cdb03eafde13"
    [] text = "blog:b:chunk_2" -> "c0a60152-e08d-5ff7-8570-ddfe0ca0e7ac"
    [] text = "blog:b:chunk_3" -> "fa9b407e-6d1d-5688-8cbb-abe0bfcaba45"
    [] text = "blog:b:chunk_4" -> "fad2a7d8-8be5-5bad-83de-dabb89e924d5"
    [] text = "blog::chunk_0" -> "63c06baf-28c9-51a3-8554-c8ff7addfb2f"
    [] text = "blog::chunk_1" -> "2e9fa2bf-5b41-5c58-be84-41f7f1cd2be4"
    [] text = "blog::chunk_2" -> "febb1081-087d-5ea0-a544-315af2cee2c8"
    [] text = "blog::chunk_3" -> "643dd50f-ba57-55a2-9d74-93fc2cfb61e1"
    [] text = "blog::chunk_4" -> "5d639167-532b-5616-b4c0-c4fc56937f66"
    [] text = "test:post_1:chunk_0" -> "dda395bc-4358-5e11-aa77-84b469491eb2"
    [] text = "test:post_1:chunk_1" -> "1ce35593-11e0-54dc-b768-2147468f5fc3"
    [] text = "never:seen:chunk_0" -> "6c052d54-adda-5341-b0a2-48538980b29a"

(***************************************************************************)
(* Embedding vectors.  A vector of n floats is held sparsely: len is n,    *)
(* nz its first two components, all further components are 0.              *)
(***************************************************************************)
Vec(n, x, y) == [len |-> n, nz |-> <<x, y>>]

Dot(a, b) == a[1] * b[1] + a[2] * b[2]

\* Cosine similarity (Distance.COSINE) of two non-negative vectors, as the
\* integer 100 * cos^2, which orders vectors as the cosine does.
Score(q, v) == (100 * Dot(q.nz, v.nz) * Dot(q.nz, v.nz)) \div (Dot(q.nz, q.nz) * Dot(v.nz, v.nz))

(***************************************************************************)
(* The Qdrant server behind self.client.                                   *)
(***************************************************************************)
\* A remote call raises when the call itself fails or the collection is missing.
RemoteRaises(fault) == fault \/ collection_name \notin collections

\* client.retrieve(collection_name, ids, with_vectors=False)
qdrant_retrieve(ids) == {p \in points : p.id \in ids}

\* client.upsert(collection_name, points=[point]): insert or replace by id
qdrant_upsert(point) == {p \in points : p.id # point.id} \cup {point}

\* client.delete(collection_name, points_selector=[id]): absent ids are ignored
qdrant_delete(ids) == {p \in points : p.id \notin ids}

\* One FieldCondition against a payload: MatchValue is equality with the
\* field, MatchAny holds when the field's list shares an element with `any`.
Matches(cond, payload) ==
  /\ cond.key \in DOMAIN payload
  /\ IF cond.match = "MatchValue"
       THEN payload[cond.key] = cond.value
       ELSE \E i \in DOMAIN payload[cond.key] :
              \E j \in DOMAIN cond.any : payload[cond.key][i] = cond.any[j]

\* Filter(must=conditions): every condition holds; no filter admits every point.
PassesFilter(query_filter, payload) ==
  query_filter = None \/
  \A i \in DOMAIN query_filter[1] : Matches(query_filter[1][i], payload)

ScoredPoint(query, p) == [id |-> p.id, score |-> Score(query, p.vector), payload |-> p.payload]

Min(a, b) == IF a < b THEN a ELSE b

\* client.query_points(...).points: the `limit` best-scoring points that pass
\* the filter and the score threshold, best first; ties in any order.
qdrant_query_points(query, query_filter, limit, score_threshold) ==
  LET cands == {p \in points :
                  /\ PassesFilter(query_filter, p.payload)
                  /\ (score_threshold = None \/ Score(query, p.vector) >= score_threshold[1])}
      n == Min(limit, Cardinality(cands))
  IN {[i \in 1..n |-> ScoredPoint(query, f[i])] :
        f \in {g \in [1..n -> cands] :
                 /\ \A i, j \in 1..n : i < j =>
                      /\ g[i] # g[j]
                      /\ Score(query, g[i].vector) >= Score(query, g[j].vector)
                 /\ \A p \in cands : (\A i \in 1..n : g[i] # p) =>
                      \A i \in 1..n : Score(query, g[i].vector) >= Score(query, p.vector)}}

(***************************************************************************)
(* RumiQdrantClient: each operation gives the value it returns and the     *)
(* server state it leaves.                                                 *)
(***************************************************************************)

\* Mutant of create_collection: an existing collection is dropped and created
\* again whatever recreate says.
create_collection_drop(recreate, fault) ==
  LET exists == collection_name \in collections IN
  IF fault = 1 THEN
    [val |-> "raised", collections |-> collections, points |-> points]
  ELSE IF exists /\ fault = 2 THEN
    [val |-> "raised", collections |-> collections, points |-> points]
  ELSE IF fault = 3 THEN
    [val |-> "raised", collections |-> collections \ {collection_name}, points |-> {}]
  ELSE
    [val |-> "returned", collections |-> collections \cup {collection_name}, points |-> {}]

\* create_collection(recreate).  fault names the remote call that fails:
\* 0 none, 1 get_collections, 2 delete_collection, 3 create_collection.
\* Every exception is logged and re-raised.
create_collection(recreate, fault) ==
  LET exists == collection_name \in collections IN
  IF fault = 1 THEN
    [val |-> "raised", collections |-> collections, points |-> points]
  ELSE IF exists /\ ~recreate THEN
    [val |-> "returned", collections |-> collections, points |-> points]
  ELSE IF exists /\ fault = 2 THEN
    [val |-> "raised", collections |-> collections, points |-> points]
  ELSE IF fault = 3 THEN
    [val |-> "raised", collections |-> collections \ {collection_name}, points |-> {}]
  ELSE
    [val |-> "returned", collections |-> collections \cup {collection_name}, points |-> {}]

\* point_exists(chunk_id): every exception is turned into False.
point_exists(chunk_id, fault) ==
  LET point_uuid == string_to_uuid(chunk_id) IN
  IF RemoteRaises(fault) THEN FALSE
  ELSE Cardinality(qdrant_retrieve({point_uuid})) > 0

\* Mutant of upsert_payload: payload.setdefault("chunk_id", chunk_id), which
\* keeps a chunk_id the caller's metadata already carries.
upsert_payload_setdefault(metadata, chunk_id) ==
  [f \in DOMAIN metadata \cup {"chunk_id"} |->
     IF f \in DOMAIN metadata THEN metadata[f] ELSE chunk_id]

\* payload = metadata.copy(); payload["chunk_id"] = chunk_id
upsert_payload(metadata, chunk_id) ==
  [f \in DOMAIN metadata \cup {"chunk_id"} |->
     IF f = "chunk_id" THEN chunk_id ELSE metadata[f]]

\* Mutant of upsert_document: the point is added beside a point of the same
\* id instead of replacing it (an insert, not an upsert).
upsert_document_insert(chunk_id, embedding, metadata, fault) ==
  IF embedding.len # vector_size THEN [val |-> FALSE, points |-> points]
  ELSE
    LET point == [id |-> string_to_uuid(chunk_id), vector |-> embedding,
                  payload |-> upsert_payload(metadata, chunk_id)]
    IN IF RemoteRaises(fault) THEN [val |-> FALSE, points |-> points]
       ELSE [val |-> TRUE, points |-> points \cup {point}]

\* Mutant of upsert_document: a vector of the wrong dimension is padded or
\* cut to vector_size and written instead of being refused.
upsert_document_pad(chunk_id, embedding, metadata, fault) ==
  LET point == [id |-> string_to_uuid(chunk_id),
                vector |-> [embedding EXCEPT !.len = vector_size],
                payload |-> upsert_payload(metadata, chunk_id)]
  IN IF RemoteRaises(fault) THEN [val |-> FALSE, points |-> points]
     ELSE [val |-> TRUE, points |-> qdrant_upsert(point)]

\* upsert_document(chunk_id, embedding, metadata): True when written; a
\* wrong dimension (ValueError) or a failed remote call gives False.
upsert_document(chunk_id, embedding, metadata, fault) ==
  IF embedding.len # vector_size THEN [val |-> FALSE, points |-> points]
  ELSE
    LET point_uuid == string_to_uuid(chunk_id)
        payload == upsert_payload(metadata, chunk_id)
        point == [id |-> point_uuid, vector |-> embedding, payload |-> payload]
    IN IF RemoteRaises(fault) THEN [val |-> FALSE, points |-> points]
       ELSE [val |-> TRUE, points |-> qdrant_upsert(point)]

\* Mutant of filter_conditions: the source condition is never added.
filter_conditions_no_source(category, source, tags) ==
  (IF Truthy(category, "")
     THEN <<[key |-> "category", match |-> "MatchValue", value |-> category[1]]>>
     ELSE <<>>)
  \o (IF Truthy(tags, <<>>)
        THEN <<[key |-> "tags", match |-> "MatchAny", any |-> tags[1]]>>
        ELSE <<>>)

\* search: the list of FieldConditions built from the truthy arguments.
filter_conditions(category, source, tags) ==
  (IF Truthy(category, "")
     THEN <<[key |-> "category", match |-> "MatchValue", value |-> category[1]]>>
     ELSE <<>>)
  \o (IF Truthy(source, "")
        THEN <<[key |-> "source", match |-> "MatchValue", value |-> source[1]]>>
        ELSE <<>>)
  \o (IF Truthy(tags, <<>>)
        THEN <<[key |-> "tags", match |-> "MatchAny", any |-> tags[1]]>>
        ELSE <<>>)

\* Mutant of formatted_results: the hits are returned worst first.
formatted_results_reversed(results) ==
  [i \in DOMAIN results |->
     LET h == results[Len(results) + 1 - i]
     IN [chunk_id |-> h.id, score |-> h.score, metadata |-> h.payload]]

\* search: the hits as returned dicts, in the server's order.
formatted_results(results) ==
  [i \in DOMAIN results |->
     [chunk_id |-> results[i].id, score |-> results[i].score, metadata |-> results[i].payload]]

\* search(query_vector, limit, category, source, tags, score_threshold): the
\* lists it may return; every exception is turned into the empty list.  The
\* server rejects a query vector of the wrong dimension.
search(query_vector, limit, category, source, tags, score_threshold, fault) ==
  LET conds == filter_conditions(category, source, tags)
      query_filter == IF conds # <<>> THEN Some(conds) ELSE None
  IN IF RemoteRaises(fault) \/ query_vector.len # vector_size THEN {<<>>}
     ELSE {formatted_results(r) :
             r \in qdrant_query_points(query_vector, query_filter, limit, score_threshold)}

\* Mutant of delete_document: a key with no stored point is reported as a
\* failure (not found) instead of a success.
delete_document_strict(chunk_id, fault) ==
  IF RemoteRaises(fault) \/ qdrant_retrieve({string_to_uuid(chunk_id)}) = {}
    THEN [val |-> FALSE, points |-> points]
    ELSE [val |-> TRUE, points |-> qdrant_delete({string_to_uuid(chunk_id)})]

\* delete_document(chunk_id): True when the remote delete returned.
delete_document(chunk_id, fault) ==
  LET point_uuid == string_to_uuid(chunk_id) IN
  IF RemoteRaises(fault) THEN [val |-> FALSE, points |-> points]
  ELSE [val |-> TRUE, points |-> qdrant_delete({point_uuid})]

\* get_collection_stats(): {} when the remote call raised.
get_collection_stats(fault) ==
  IF RemoteRaises(fault) THEN None
  ELSE Some([points_count |-> Cardinality(points)])

(***************************************************************************)
(* Inputs of the client-level specification: the calls of                  *)
(* scripts/test_qdrant_client.py with small sets of arguments.             *)
(***************************************************************************)
MaxLimit == 2

\* keys written by upsert_document, and the keys looked up or deleted
ChunkKeys == {"test:post_1:chunk_0", "test:post_1:chunk_1"}
ProbeKeys == ChunkKeys \cup {"never:seen:chunk_0"}

Embeddings == {Vec(vector_size, 1, 0), Vec(vector_size, 1, 1), Vec(vector_size - 1, 1, 0)}

QueryVectors == {Vec(vector_size, 1, 0), Vec(vector_size, 0, 1)}

Metadatas ==
  { [title |-> "Test Post", category |-> "work", tags |-> <<"test", "demo">>,
     content |-> "This is test content", source |-> "blog"],
    [title |-> "Test Post", category |-> "work", tags |-> <<"test", "demo">>,
     content |-> "Updated content", source |-> "blog"],
    [title |-> "Notes", tags |-> <<"demo">>, source |-> "linkedin",
     chunk_id |-> "never:seen:chunk_0"] }

\* the (category, source, tags) arguments of search
SearchFilters ==
  { [category |-> None, source |-> None, tags |-> None],
    [category |-> Some("work"), source |-> None, tags |-> None],
    [category |-> None, source |-> Some("blog"), tags |-> Some(<<"demo", "rag">>)],
    [category |-> Some(""), source |-> None, tags |-> Some(<<>>)] }

Thresholds == {None, Some(50)}

Init ==
  /\ collections = {}
  /\ points = {}
  /\ ret = [op |-> "init"]
  /\ sync = <<>>

CreateCollection ==
  \E recreate \in BOOLEAN, fault \in 0..3 :
    LET r == create_collection(recreate, fault) IN
    /\ collections' = r.collections
    /\ points' = r.points
    /\ ret' = [op |-> "create_collection", recreate |-> recreate, fault |-> fault,
               val |-> r.val, existed |-> collection_name \in collections,
               pre |-> points]
    /\ UNCHANGED sync

PointExists ==
  \E chunk_id \in ProbeKeys, fault \in BOOLEAN :
    /\ ret' = [op |-> "point_exists", chunk_id |-> chunk_id, fault |-> fault,
               val |-> point_exists(chunk_id, fault)]
    /\ UNCHANGED <<storeVars, sync>>

UpsertDocument ==
  \E chunk_id \in ChunkKeys, embedding \in Embeddings, metadata \in Metadatas,
     fault \in BOOLEAN :
    LET r == upsert_document(chunk_id, embedding, metadata, fault) IN
    /\ points' = r.points
    /\ ret' = [op |-> "upsert_document", chunk_id |-> chunk_id, embedding |-> embedding,
               metadata |-> metadata, fault |-> fault, val |-> r.val,
               existed |-> collection_name \in collections, pre |-> points]
    /\ UNCHANGED <<collections, sync>>

Search ==
  \E query_vector \in QueryVectors, limit \in 1..MaxLimit, f \in SearchFilters,
     score_threshold \in Thresholds, fault \in BOOLEAN :
    \E r \in search(query_vector, limit, f.category, f.source, f.tags, score_threshold, fault) :
      /\ ret' = [op |-> "search", query_vector |-> query_vector, limit |-> limit,
                 category |-> f.category, source |-> f.source, tags |-> f.tags,
                 score_threshold |-> score_threshold, fault |-> fault, val |-> r]
      /\ UNCHANGED <<storeVars, sync>>

DeleteDocument ==
  \E chunk_id \in ProbeKeys, fault \in BOOLEAN :
    LET r == delete_document(chunk_id, fault) IN
    /\ points' = r.points
    /\ ret' = [op |-> "delete_document", chunk_id |-> chunk_id, fault |-> fault,
               val |-> r.val, existed |-> collection_name \in collections,
               pre |-> points]
    /\ UNCHANGED <<collections, sync>>

GetCollectionStats ==
  \E fault \in BOOLEAN :
    /\ ret' = [op |-> "get_collection_stats", fault |-> fault,
               val |-> get_collection_stats(fault)]
    /\ UNCHANGED <<storeVars, sync>>

Next ==
  \/ CreateCollection
  \/ PointExists
  \/ UpsertDocument
  \/ Search
  \/ DeleteDocument
  \/ GetCollectionStats

Spec == Init /\ [][Next]_vars

(***************************************************************************)
(* TextChunker (src/storage/chunking.py).  A text is a sequence of         *)
(* paragraphs (the blocks between blank lines), a paragraph a sequence of  *)
(* sentences, and a sentence is given by its token count n > 0; an entry    *)
(* -n is a run of whitespace that encodes to n tokens.  A chunk's text is  *)
(* again a sequence of paragraphs: the units joined by "\n\n".             *)
(***************************************************************************)
max_tokens == 6000
overlap_tokens == 200

\* tokens of the "\n\n" between two paragraphs of one text
ParagraphBreakTokens == 1

RECURSIVE SumSeq(_)
SumSeq(q) == IF q = <<>> THEN 0 ELSE Head(q) + SumSeq(Tail(q))

Abs(n) == IF n < 0 THEN 0 - n ELSE n

\* count_tokens of one paragraph or one sentence list
para_tokens(para) == SumSeq([i \in DOMAIN para |-> Abs(para[i])])

\* str.strip(): the whitespace at both ends is dropped
RECURSIVE lstrip(_)
lstrip(para) ==
  IF para # <<>> /\ Head(para) < 0 THEN lstrip(Tail(para)) ELSE para

RECURSIVE rstrip(_)
rstrip(para) ==
  IF para # <<>> /\ para[Len(para)] < 0
    THEN rstrip(SubSeq(para, 1, Len(para) - 1)) ELSE para

strip(para) == rstrip(lstrip(para))

\* count_tokens of a whole text
count_tokens(text) ==
  SumSeq([i \in DOMAIN text |-> para_tokens(text[i])])
    + (IF Len(text) > 1 THEN (Len(text) - 1) * ParagraphBreakTokens ELSE 0)

\* _split_by_paragraphs: the non-blank paragraphs, stripped, in order
RECURSIVE _split_by_paragraphs(_)
_split_by_paragraphs(text) ==
  IF text = <<>> THEN <<>>
  ELSE (IF strip(Head(text)) # <<>> THEN <<strip(Head(text))>> ELSE <<>>)
         \o _split_by_paragraphs(Tail(text))

\* _split_by_sentences: each sentence of a paragraph, as a unit of its own
_split_by_sentences(para) ==
  LET sentences == SelectSeq(para, LAMBDA s : s > 0)
  IN [i \in DOMAIN sentences |-> <<sentences[i]>>]

\* Mutant of AddUnit: the budget is exclusive.
AddUnit_exclusive(st, unit) ==
  LET unit_tokens == para_tokens(unit) IN
  IF st.current_tokens + unit_tokens >= max_tokens
    THEN [chunks |-> IF st.current_chunk # <<>>
                       THEN Append(st.chunks, [text |-> st.current_chunk,
                                               tokens |-> st.current_tokens])
                       ELSE st.chunks,
          current_chunk |-> <<unit>>,
          current_tokens |-> unit_tokens]
    ELSE [chunks |-> st.chunks,
          current_chunk |-> Append(st.current_chunk, unit),
          current_tokens |-> st.current_tokens + unit_tokens]

\* Mutant of AddUnit: a chunk that is closed is thrown away.
AddUnit_drop(st, unit) ==
  LET unit_tokens == para_tokens(unit) IN
  IF st.current_tokens + unit_tokens > max_tokens
    THEN [chunks |-> st.chunks,
          current_chunk |-> <<unit>>,
          current_tokens |-> unit_tokens]
    ELSE [chunks |-> st.chunks,
          current_chunk |-> Append(st.current_chunk, unit),
          current_tokens |-> st.current_tokens + unit_tokens]

\* Mutant of AddUnit: the current chunk is never closed.
AddUnit_append(st, unit) ==
  [chunks |-> st.chunks,
   current_chunk |-> Append(st.current_chunk, unit),
   current_tokens |-> st.current_tokens + para_tokens(unit)]

\* _create_chunks, the loop over the sentences of one over-long paragraph and
\* the two paragraph branches: a unit that does not fit closes the current
\* chunk (when it has content) and starts the next one.  st is the loop state
\* [chunks, current_chunk, current_tokens].
AddUnit(st, unit) ==
  LET unit_tokens == para_tokens(unit) IN
  IF st.current_tokens + unit_tokens > max_tokens
    THEN [chunks |-> IF st.current_chunk # <<>>
                       THEN Append(st.chunks, [text |-> st.current_chunk,
                                               tokens |-> st.current_tokens])
                       ELSE st.chunks,
          current_chunk |-> <<unit>>,
          current_tokens |-> unit_tokens]
    ELSE [chunks |-> st.chunks,
          current_chunk |-> Append(st.current_chunk, unit),
          current_tokens |-> st.current_tokens + unit_tokens]

RECURSIVE AddUnits(_, _)
AddUnits(st, units) ==
  IF units = <<>> THEN st ELSE AddUnits(AddUnit(st, Head(units)), Tail(units))

\* _create_chunks, the loop over the paragraphs
RECURSIVE AddParagraphs(_, _)
AddParagraphs(st, paragraphs) ==
  IF paragraphs = <<>> THEN st
  ELSE LET para == Head(paragraphs)
           next == IF para_tokens(para) > max_tokens
                     THEN AddUnits(st, _split_by_sentences(para))
                     ELSE AddUnit(st, para)
       IN AddParagraphs(next, Tail(paragraphs))

chunk_id_of(doc_id, i) == doc_id \o ":chunk_" \o ToString(i)

\* Mutant of _create_chunks: the chunks are numbered from 1.
_create_chunks_from_one(paragraphs, doc_id, metadata) ==
  LET st == AddParagraphs([chunks |-> <<>>, current_chunk |-> <<>>, current_tokens |-> 0],
                          paragraphs)
      chunks == IF st.current_chunk # <<>>
                  THEN Append(st.chunks, [text |-> st.current_chunk,
                                          tokens |-> st.current_tokens])
                  ELSE st.chunks
      total_chunks == Len(chunks)
  IN [n \in DOMAIN chunks |->
        [text |-> chunks[n].text, tokens |-> chunks[n].tokens,
         chunk_id |-> chunk_id_of(doc_id, n), chunk_index |-> n,
         total_chunks |-> total_chunks, parent_id |-> doc_id, metadata |-> metadata]]

_create_chunks(paragraphs, doc_id, metadata) ==
  LET st == AddParagraphs([chunks |-> <<>>, current_chunk |-> <<>>, current_tokens |-> 0],
                          paragraphs)
      chunks == IF st.current_chunk # <<>>
                  THEN Append(st.chunks, [text |-> st.current_chunk,
                                          tokens |-> st.current_tokens])
                  ELSE st.chunks
      total_chunks == Len(chunks)
  IN [n \in DOMAIN chunks |->
        [text |-> chunks[n].text, tokens |-> chunks[n].tokens,
         chunk_id |-> chunk_id_of(doc_id, n - 1), chunk_index |-> n - 1,
         total_chunks |-> total_chunks, parent_id |-> doc_id, metadata |-> metadata]]

\* chunk_text raises: past the single-chunk branch, the log line divides by
\* len(chunks), which is 0 when no paragraph is left after the clean-up.
chunk_text_raises(text) ==
  IF count_tokens(text) > max_tokens /\ _split_by_paragraphs(text) = <<>>
    THEN "ZeroDivisionError" ELSE "none"

\* Mutant of chunk_text: a text within the budget goes through the paragraph
\* split as well.
chunk_text_split(text, doc_id, metadata) ==
  _create_chunks(_split_by_paragraphs(text), doc_id, metadata)

chunk_text(text, doc_id, metadata) ==
  LET token_count == count_tokens(text) IN
  IF token_count <= max_tokens
    THEN <<[chunk_id |-> chunk_id_of(doc_id, 0), text |-> text, tokens |-> token_count,
            chunk_index |-> 0, total_chunks |-> 1, parent_id |-> doc_id,
            metadata |-> metadata]>>
    ELSE _create_chunks(_split_by_paragraphs(text), doc_id, metadata)

\* TextChunker(max_tokens, overlap_tokens): the constructor keeps both
TextChunker(mt, ov) == [max_tokens |-> mt, overlap_tokens |-> ov]

\* Mutant of chunk_text_self: with an overlap set, a chunk starts with the last
\* unit of the chunk before it.
chunk_text_overlap(self, text, doc_id, metadata) ==
  LET chunks == chunk_text(text, doc_id, metadata) IN
  [n \in DOMAIN chunks |->
     IF n > 1 /\ self.overlap_tokens > 0
       THEN [chunks[n] EXCEPT
               !.text = <<chunks[n - 1].text[Len(chunks[n - 1].text)]>> \o @]
       ELSE chunks[n]]

\* chunk_text called on a chunker object whose max_tokens is the one above:
\* chunk_text, _split_by_paragraphs, _split_by_sentences and _create_chunks
\* read self.max_tokens and self.encoding and never self.overlap_tokens.
chunk_text_self(self, text, doc_id, metadata) == chunk_text(text, doc_id, metadata)

(***************************************************************************)
(* EmbeddingGenerator (src/storage/embeddings.py).                         *)
(***************************************************************************)
dimensions == 1536

\* The vector the embedding service computes for a text: a fixed function of
\* the text.
Embed(text) == Vec(dimensions, Len(text), count_tokens(text) \div 1000)

\* What one request to the embedding service can do.  fault: 0 it answers
\* with one vector per input, in input order; 1 it fails (timeout, 5xx, rate
\* limit); 2 its answer lacks the last item; 3 the last vector of its answer
\* is one component short.
EmbedFaults == 0..3

\* self.client.embeddings.create(model, input, encoding_format)
openai_embeddings_create(input, fault) ==
  LET data == [i \in DOMAIN input |-> Embed(input[i])] IN
  CASE fault = 1 -> [raised |-> TRUE, data |-> <<>>]
    [] fault = 2 -> [raised |-> FALSE, data |-> SubSeq(data, 1, Len(data) - 1)]
    [] fault = 3 -> [raised |-> FALSE,
                     data |-> [i \in DOMAIN data |->
                                 IF i = Len(data)
                                   THEN [data[i] EXCEPT !.len = dimensions - 1]
                                   ELSE data[i]]]
    [] OTHER -> [raised |-> FALSE, data |-> data]

\* generate_embedding(text): one request; every exception is logged and
\* re-raised.  calls counts the requests made.
generate_embedding(text, fault) ==
  LET response == openai_embeddings_create(<<text>>, fault) IN
  IF response.raised
    THEN [raised |-> TRUE, error |-> "APIError", val |-> <<>>, calls |-> 1]
  ELSE IF response.data = <<>>
    THEN [raised |-> TRUE, error |-> "IndexError", val |-> <<>>, calls |-> 1]
  ELSE IF response.data[1].len # dimensions
    THEN [raised |-> TRUE, error |-> "ValueError", val |-> <<>>, calls |-> 1]
  ELSE [raised |-> FALSE, error |-> "none", val |-> <<response.data[1]>>, calls |-> 1]

\* Mutant of generate_embeddings_batch: the request is sent for an empty list
\* too.
generate_embeddings_batch_always_calls(texts, fault) ==
  LET response == openai_embeddings_create(texts, fault)
      embeddings == response.data
  IN IF response.raised
       THEN [raised |-> TRUE, error |-> "APIError", val |-> <<>>, calls |-> 1]
     ELSE IF Len(embeddings) # Len(texts)
       THEN [raised |-> TRUE, error |-> "ValueError", val |-> <<>>, calls |-> 1]
     ELSE IF \E i \in DOMAIN embeddings : embeddings[i].len # dimensions
       THEN [raised |-> TRUE, error |-> "ValueError", val |-> <<>>, calls |-> 1]
     ELSE [raised |-> FALSE, error |-> "none", val |-> embeddings, calls |-> 1]

\* Mutant of generate_embeddings_batch: the answer is returned as it came.
generate_embeddings_batch_unvalidated(texts, fault) ==
  IF texts = <<>> THEN [raised |-> FALSE, error |-> "none", val |-> <<>>, calls |-> 0]
  ELSE
    LET response == openai_embeddings_create(texts, fault) IN
    IF response.raised
      THEN [raised |-> TRUE, error |-> "APIError", val |-> <<>>, calls |-> 1]
      ELSE [raised |-> FALSE, error |-> "none", val |-> response.data, calls |-> 1]

\* Mutant of generate_embeddings_batch: a failed request is sent once more.
generate_embeddings_batch_retry(texts, fault) ==
  IF texts = <<>> THEN [raised |-> FALSE, error |-> "none", val |-> <<>>, calls |-> 0]
  ELSE
    LET response == openai_embeddings_create(texts, fault)
        again == openai_embeddings_create(texts, 0)
        embeddings == response.data
    IN IF response.raised
         THEN [raised |-> FALSE, error |-> "none", val |-> again.data, calls |-> 2]
       ELSE IF Len(embeddings) # Len(texts)
         THEN [raised |-> TRUE, error |-> "ValueError", val |-> <<>>, calls |-> 1]
       ELSE IF \E i \in DOMAIN embeddings : embeddings[i].len # dimensions
         THEN [raised |-> TRUE, error |-> "ValueError", val |-> <<>>, calls |-> 1]
       ELSE [raised |-> FALSE, error |-> "none", val |-> embeddings, calls |-> 1]

\* generate_embeddings_batch(texts): an empty list makes no request; otherwise
\* one request, whose answer is validated; every exception is logged and
\* re-raised.  calls counts the requests made.
generate_embeddings_batch(texts, fault) ==
  IF texts = <<>> THEN [raised |-> FALSE, error |-> "none", val |-> <<>>, calls |-> 0]
  ELSE
    LET response == openai_embeddings_create(texts, fault)
        embeddings == response.data
    IN IF response.raised
         THEN [raised |-> TRUE, error |-> "APIError", val |-> <<>>, calls |-> 1]
       ELSE IF Len(embeddings) # Len(texts)
         THEN [raised |-> TRUE, error |-> "ValueError", val |-> <<>>, calls |-> 1]
       ELSE IF \E i \in DOMAIN embeddings : embeddings[i].len # dimensions
         THEN [raised |-> TRUE, error |-> "ValueError", val |-> <<>>, calls |-> 1]
       ELSE [raised |-> FALSE, error |-> "none", val |-> embeddings, calls |-> 1]

\* Mutant of embed_document_with_chunking: the vectors are paired with the
\* chunks in reverse order.
embed_document_with_chunking_swapped(text, doc_id, metadata, fault) ==
  LET chunks == chunk_text(text, doc_id, metadata)
      chunk_texts == [i \in DOMAIN chunks |-> chunks[i].text]
      r == generate_embeddings_batch(chunk_texts, fault)
      embeddings == r.val
  IN IF chunk_text_raises(text) # "none"
       THEN [raised |-> TRUE, calls |-> 0, val |-> <<>>]
     ELSE IF r.raised THEN [raised |-> TRUE, calls |-> r.calls, val |-> <<>>]
     ELSE [raised |-> FALSE, calls |-> r.calls,
           val |-> [i \in 1..Min(Len(chunks), Len(embeddings)) |->
                      [chunk_id |-> chunks[i].chunk_id, embedding |-> embeddings[Len(embeddings) + 1 - i],
                       text |-> chunks[i].text, tokens |-> chunks[i].tokens,
                       chunk_index |-> chunks[i].chunk_index,
                       total_chunks |-> chunks[i].total_chunks,
                       parent_id |-> chunks[i].parent_id,
                       metadata |-> chunks[i].metadata]]]

\* embed_document_with_chunking(text, doc_id, metadata)
embed_document_with_chunking(text, doc_id, metadata, fault) ==
  LET chunks == chunk_text(text, doc_id, metadata)
      chunk_texts == [i \in DOMAIN chunks |-> chunks[i].text]
      r == generate_embeddings_batch(chunk_texts, fault)
      embeddings == r.val
  IN IF chunk_text_raises(text) # "none"
       THEN [raised |-> TRUE, calls |-> 0, val |-> <<>>]
     ELSE IF r.raised THEN [raised |-> TRUE, calls |-> r.calls, val |-> <<>>]
     ELSE [raised |-> FALSE, calls |-> r.calls,
           val |-> [i \in 1..Min(Len(chunks), Len(embeddings)) |->
                      [chunk_id |-> chunks[i].chunk_id, embedding |-> embeddings[i],
                       text |-> chunks[i].text, tokens |-> chunks[i].tokens,
                       chunk_index |-> chunks[i].chunk_index,
                       total_chunks |-> chunks[i].total_chunks,
                       parent_id |-> chunks[i].parent_id,
                       metadata |-> chunks[i].metadata]]]

(***************************************************************************)
(* The chunker and the embedding generator called directly, on texts of up *)
(* to MaxParagraphs paragraphs and batches of up to MaxBatch texts.  Both   *)
(* keep nothing from one call to the next, so a behaviour is one call.     *)
(***************************************************************************)
MaxParagraphs == 3
MaxBatch == 2

\* a blank paragraph, a short one with whitespace around it, one of half the
\* budget, one over the budget made of three sentences, one sentence over the
\* budget, and whitespace that alone is over the budget
Paragraphs ==
  { <<>>, <<-1, 50, -1>>, <<3000>>, <<2000, 2500, 2000>>, <<7000>>, <<-7000>> }

Texts == UNION {[1..n -> Paragraphs] : n \in 1..MaxParagraphs}

DocIds == {"doc1", "blog:a"}

BatchTexts == { <<<<50>>>>, <<<<3000>>, <<3000>>>>, <<<<>>>> }

Batches == UNION {[1..n -> BatchTexts] : n \in 0..MaxBatch}

ChunkText ==
  /\ ret.op = "init"
  /\ \E text \in Texts, doc_id \in DocIds :
       /\ ret' = [op |-> "chunk_text", text |-> text, doc_id |-> doc_id,
                  raised |-> chunk_text_raises(text),
                  val |-> IF chunk_text_raises(text) # "none" THEN <<>>
                          ELSE chunk_text(text, doc_id, <<>>)]
       /\ UNCHANGED <<storeVars, sync>>

\* the overlap_tokens a chunker is constructed with
Overlaps == {0, overlap_tokens, 500}

\* the same text given to two chunkers that differ in overlap_tokens only
ChunkTextTwice ==
  /\ ret.op = "init"
  /\ \E text \in Texts, ov1 \in Overlaps, ov2 \in Overlaps :
       /\ ov1 < ov2
       /\ ret' = [op |-> "chunk_text_twice", text |-> text, overlaps |-> <<ov1, ov2>>,
                  raised |-> chunk_text_raises(text),
                  vals |-> IF chunk_text_raises(text) # "none" THEN <<>>
                           ELSE <<chunk_text_self(TextChunker(max_tokens, ov1),
                                                  text, "doc1", <<>>),
                                  chunk_text_self(TextChunker(max_tokens, ov2),
                                                  text, "doc1", <<>>)>>]
       /\ UNCHANGED <<storeVars, sync>>

\* sync_blog_to_qdrant, the document id of a post.
\* url_slug = post['url'].split('/')[-1] if '/' in post['url'] else post['url']
url_slug(url) == IF Len(url) > 1 THEN url[Len(url)] ELSE url[1]

doc_id_of(post) == "blog:" \o url_slug(post.url)

\* urls of feed entries, as their '/'-separated segments: two posts of one
\* section, a post of another section with the same last segment, the first
\* post's url with a trailing slash, and a url without a slash
Urls ==
  { <<"https:", "", "agamjn.com", "p", "a">>,
    <<"https:", "", "agamjn.com", "p", "b">>,
    <<"https:", "", "agamjn.com", "notes", "a">>,
    <<"https:", "", "agamjn.com", "p", "a", "">>,
    <<"a">> }

\* the doc_id the loop derives for two posts of a feed
DeriveDocIds ==
  /\ ret.op = "init"
  /\ \E u1 \in Urls, u2 \in Urls :
       /\ ret' = [op |-> "doc_id", urls |-> <<u1, u2>>,
                  doc_ids |-> <<doc_id_of([url |-> u1]), doc_id_of([url |-> u2])>>]
       /\ UNCHANGED <<storeVars, sync>>

GenerateEmbedding ==
  /\ ret.op = "init"
  /\ \E text \in BatchTexts, fault \in EmbedFaults :
       LET r == generate_embedding(text, fault) IN
       /\ ret' = [op |-> "generate_embedding", texts |-> <<text>>, fault |-> fault,
                  raised |-> r.raised, error |-> r.error, val |-> r.val,
                  calls |-> r.calls]
       /\ UNCHANGED <<storeVars, sync>>

GenerateEmbeddingsBatch ==
  /\ ret.op = "init"
  /\ \E texts \in Batches, fault \in EmbedFaults :
       LET r == generate_embeddings_batch(texts, fault) IN
       /\ ret' = [op |-> "generate_embeddings_batch", texts |-> texts, fault |-> fault,
                  raised |-> r.raised, error |-> r.error, val |-> r.val,
                  calls |-> r.calls]
       /\ UNCHANGED <<storeVars, sync>>

EmbedDocumentWithChunking ==
  /\ ret.op = "init"
  /\ \E text \in Texts, fault \in EmbedFaults :
       LET r == embed_document_with_chunking(text, "doc1", <<>>, fault) IN
       /\ ret' = [op |-> "embed_document_with_chunking", text |-> text, fault |-> fault,
                  raised |-> r.raised, val |-> r.val, calls |-> r.calls]
       /\ UNCHANGED <<storeVars, sync>>

InitDoc ==
  /\ collections = {}
  /\ points = {}
  /\ ret = [op |-> "init"]
  /\ sync = <<>>

NextDoc ==
  \/ ChunkText
  \/ ChunkTextTwice
  \/ DeriveDocIds
  \/ GenerateEmbedding
  \/ GenerateEmbeddingsBatch
  \/ EmbedDocumentWithChunking

SpecDoc == InitDoc /\ [][NextDoc]_vars

(***************************************************************************)
(* scripts/sync_blog_to_qdrant.py.  A post's url is the list of its        *)
(* '/'-separated segments; its content is a text as above.                 *)
(***************************************************************************)
MaxRuns == 2

\* tokens of "Title: " and of "Content: " in full_text
TitlePrefixTokens == 2
ContentPrefixTokens == 2

\* fetch_blog_posts(rss_url): the posts of the feed, with the classification
\* classify_content gives each
Posts ==
  << [url |-> <<"https:", "", "agamjn.com", "p", "a">>, title |-> "A", title_tokens |-> 1,
      published |-> "2025-01-01",
      content |-> << <<1500, 1500>>, <<3000>>, <<3000>> >>,
      classification |-> [category |-> "work", tags |-> <<"vllm", "rag">>, summary |-> "sa"]],
     [url |-> <<"https:", "", "agamjn.com", "p", "b">>, title |-> "B", title_tokens |-> 1,
      published |-> "2025-01-02",
      content |-> << <<50>> >>,
      classification |-> [category |-> "personal", tags |-> <<"life">>, summary |-> "sb"]] >>

\* limit: None (all posts) or a number of posts
Limits == {None} \cup {Some(n) : n \in 1..(Len(Posts) - 1)}

\* full_text = f"Title: {post['title']}\n\nContent: {post['content']}"
full_text(post) ==
  << <<TitlePrefixTokens + post.title_tokens>> >>
    \o (IF post.content = <<>> THEN << <<ContentPrefixTokens>> >>
        ELSE << <<ContentPrefixTokens + Head(Head(post.content))>>
                  \o Tail(Head(post.content)) >>
               \o Tail(post.content))

post_metadata(post) ==
  [title |-> post.title, url |-> post.url, published |-> post.published,
   category |-> post.classification.category, tags |-> post.classification.tags,
   summary |-> post.classification.summary, source |-> "blog"]

NewStats(posts) ==
  [total_posts |-> Len(posts), skipped_existing |-> 0, newly_embedded |-> 0,
   total_chunks |-> 0, total_tokens |-> 0,
   categories |-> [work |-> 0, personal |-> 0], errors |-> 0]

\* dict.get('points_count', 0) on the result of get_collection_stats
points_count_of(stats) == IF stats = None THEN 0 ELSE stats[1].points_count

\* the local variables of one worker before its first run
IdleWorker ==
  [pc |-> "idle", run |-> 0, posts |-> <<>>, i |-> 0, chunks |-> <<>>, k |-> 0,
   stats |-> NewStats(<<>>), processed_posts |-> <<>>,
   initial_count |-> 0, final_count |-> 0, start_points |-> {}]

\* estimate_cost(token_count), in units of 10^-8 USD ($0.02 per 1M tokens)
estimate_cost(token_count) == 2 * token_count

InitSync ==
  /\ collections = {}
  /\ points = {}
  /\ ret = [op |-> "init"]
  /\ sync = [p \in {1} |-> IdleWorker]

\* sync_blog_to_qdrant starts: create_collection(); its exception ends the run.
BeginRun(p) ==
  /\ sync[p].pc \in {"idle", "done", "failed"}
  /\ sync[p].run < MaxRuns
  /\ \E fault \in 0..3 :
       LET c == create_collection(FALSE, fault) IN
       /\ collections' = c.collections
       /\ points' = c.points
       /\ sync' = [sync EXCEPT ![p] =
            [IdleWorker EXCEPT !.pc = IF c.val = "raised" THEN "failed" ELSE "started",
                               !.run = sync[p].run + 1]]
  /\ UNCHANGED ret

\* the initial stats, and the fetched posts cut to limit
FetchPosts(p) ==
  /\ sync[p].pc = "started"
  /\ \E fault \in BOOLEAN, limit \in Limits :
       LET initial_stats == get_collection_stats(fault)
           posts == IF limit # None THEN SubSeq(Posts, 1, limit[1]) ELSE Posts
       IN sync' = [sync EXCEPT ![p].pc = "post", ![p].posts = posts, ![p].i = 1,
                               ![p].stats = NewStats(posts),
                               ![p].initial_count = points_count_of(initial_stats),
                               ![p].start_points = points]
  /\ UNCHANGED <<storeVars, ret>>

\* Mutant of ProcessPost: a post that another worker is embedding or upserting
\* is taken as stored.
ProcessPost_locked(p) ==
  /\ sync[p].pc = "post"
  /\ sync[p].i <= Len(sync[p].posts)
  /\ \E classify_fault \in BOOLEAN, fault \in BOOLEAN :
       LET L == sync[p]
           post == L.posts[L.i]
           classification == post.classification
           doc_id == doc_id_of(post)
           chunk_id == chunk_id_of(doc_id, 0)
           counted == [L.stats EXCEPT !.categories[classification.category] = @ + 1]
           exists == \/ point_exists(chunk_id, fault)
                     \/ \E q \in DOMAIN sync \ {p} :
                          /\ sync[q].pc \in {"embed", "upsert"}
                          /\ doc_id_of(sync[q].posts[sync[q].i]) = doc_id
       IN IF classify_fault \/ classification.category \notin DOMAIN L.stats.categories
            THEN /\ sync' = [sync EXCEPT ![p].stats.errors = @ + 1, ![p].i = @ + 1]
                 /\ ret' = [op |-> "classify_content", worker |-> p, val |-> "raised"]
            ELSE /\ ret' = [op |-> "point_exists", worker |-> p, chunk_id |-> chunk_id,
                            fault |-> fault, val |-> exists]
                 /\ IF exists
                      THEN sync' = [sync EXCEPT
                             ![p].stats = [counted EXCEPT !.skipped_existing = @ + 1],
                             ![p].processed_posts = Append(@,
                                [title |-> post.title, url |-> post.url, doc_id |-> doc_id,
                                 status |-> "existing"]),
                             ![p].i = @ + 1]
                      ELSE sync' = [sync EXCEPT ![p].stats = counted, ![p].pc = "embed"]
  /\ UNCHANGED storeVars

\* Mutant of ProcessPost: the result of the existence check is not acted on.
ProcessPost_noskip(p) ==
  /\ sync[p].pc = "post"
  /\ sync[p].i <= Len(sync[p].posts)
  /\ \E classify_fault \in BOOLEAN, fault \in BOOLEAN :
       LET L == sync[p]
           post == L.posts[L.i]
           classification == post.classification
           chunk_id == chunk_id_of(doc_id_of(post), 0)
           counted == [L.stats EXCEPT !.categories[classification.category] = @ + 1]
       IN IF classify_fault \/ classification.category \notin DOMAIN L.stats.categories
            THEN /\ sync' = [sync EXCEPT ![p].stats.errors = @ + 1, ![p].i = @ + 1]
                 /\ ret' = [op |-> "classify_content", worker |-> p, val |-> "raised"]
            ELSE /\ ret' = [op |-> "point_exists", worker |-> p, chunk_id |-> chunk_id,
                            fault |-> fault, val |-> point_exists(chunk_id, fault)]
                 /\ sync' = [sync EXCEPT ![p].stats = counted, ![p].pc = "embed"]
  /\ UNCHANGED storeVars

\* One pass of the loop up to the existence check: classify the post, derive
\* doc_id, and skip the post when its chunk_0 key exists.  An exception of
\* classify_content, or a category that is no key of stats['categories'],
\* counts an error and goes on to the next post.
ProcessPost(p) ==
  /\ sync[p].pc = "post"
  /\ sync[p].i <= Len(sync[p].posts)
  /\ \E classify_fault \in BOOLEAN, fault \in BOOLEAN :
       LET L == sync[p]
           post == L.posts[L.i]
           classification == post.classification
           doc_id == doc_id_of(post)
           chunk_id == chunk_id_of(doc_id, 0)
           counted == [L.stats EXCEPT !.categories[classification.category] = @ + 1]
           exists == point_exists(chunk_id, fault)
       IN IF classify_fault \/ classification.category \notin DOMAIN L.stats.categories
            THEN /\ sync' = [sync EXCEPT ![p].stats.errors = @ + 1, ![p].i = @ + 1]
                 /\ ret' = [op |-> "classify_content", worker |-> p, val |-> "raised"]
            ELSE /\ ret' = [op |-> "point_exists", worker |-> p, chunk_id |-> chunk_id,
                            fault |-> fault, val |-> exists]
                 /\ IF exists
                      THEN sync' = [sync EXCEPT
                             ![p].stats = [counted EXCEPT !.skipped_existing = @ + 1],
                             ![p].processed_posts = Append(@,
                                [title |-> post.title, url |-> post.url, doc_id |-> doc_id,
                                 status |-> "existing"]),
                             ![p].i = @ + 1]
                      ELSE sync' = [sync EXCEPT ![p].stats = counted, ![p].pc = "embed"]
  /\ UNCHANGED storeVars

\* embed_document_with_chunking; an exception counts an error and goes on to
\* the next post.
EmbedPost(p) ==
  /\ sync[p].pc = "embed"
  /\ \E fault \in EmbedFaults :
       LET L == sync[p]
           post == L.posts[L.i]
           r == embed_document_with_chunking(full_text(post), doc_id_of(post),
                                             post_metadata(post), fault)
       IN IF r.raised
            THEN /\ sync' = [sync EXCEPT ![p].stats.errors = @ + 1, ![p].i = @ + 1,
                                         ![p].pc = "post"]
                 /\ ret' = [op |-> "embed_document_with_chunking", worker |-> p,
                            doc_id |-> doc_id_of(post), fault |-> fault,
                            raised |-> TRUE, calls |-> r.calls]
            ELSE /\ sync' = [sync EXCEPT ![p].chunks = r.val, ![p].k = 1,
                                         ![p].pc = "upsert"]
                 /\ ret' = [op |-> "embed_document_with_chunking", worker |-> p,
                            doc_id |-> doc_id_of(post), fault |-> fault,
                            raised |-> FALSE, calls |-> r.calls]
  /\ UNCHANGED storeVars

\* for chunk in chunks: upsert_document(...); a False result counts an error.
UpsertChunk(p) ==
  /\ sync[p].pc = "upsert"
  /\ sync[p].k <= Len(sync[p].chunks)
  /\ \E fault \in BOOLEAN :
       LET chunk == sync[p].chunks[sync[p].k]
           r == upsert_document(chunk.chunk_id, chunk.embedding, chunk.metadata, fault)
       IN /\ points' = r.points
          /\ sync' = [sync EXCEPT ![p].k = @ + 1,
                                  ![p].stats.errors = IF r.val THEN @ ELSE @ + 1]
          /\ ret' = [op |-> "upsert_document", worker |-> p,
                     chunk_id |-> chunk.chunk_id, embedding |-> chunk.embedding,
                     metadata |-> chunk.metadata, fault |-> fault, val |-> r.val]
  /\ UNCHANGED collections

\* after the upsert loop: the stats of the post and its summary entry
FinishPost(p) ==
  /\ sync[p].pc = "upsert"
  /\ sync[p].k > Len(sync[p].chunks)
  /\ LET L == sync[p]
         post == L.posts[L.i]
         tokens == SumSeq([n \in DOMAIN L.chunks |-> L.chunks[n].tokens])
     IN sync' = [sync EXCEPT
          ![p].stats = [@ EXCEPT !.newly_embedded = @ + 1,
                                 !.total_chunks = @ + Len(L.chunks),
                                 !.total_tokens = @ + tokens],
          ![p].processed_posts = Append(@,
             [title |-> post.title, url |-> post.url, doc_id |-> doc_id_of(post),
              chunks |-> Len(L.chunks), tokens |-> tokens,
              cost |-> estimate_cost(tokens), status |-> "new"]),
          ![p].chunks = <<>>, ![p].k = 0, ![p].i = @ + 1, ![p].pc = "post"]
  /\ UNCHANGED <<storeVars, ret>>

\* after the loop: the final stats; the run returns (stats, processed_posts)
EndRun(p) ==
  /\ sync[p].pc = "post"
  /\ sync[p].i > Len(sync[p].posts)
  /\ \E fault \in BOOLEAN :
       sync' = [sync EXCEPT ![p].pc = "done",
                            ![p].final_count = points_count_of(get_collection_stats(fault))]
  /\ UNCHANGED <<storeVars, ret>>

NextSync ==
  \/ \E p \in DOMAIN sync : BeginRun(p)
  \/ \E p \in DOMAIN sync : FetchPosts(p)
  \/ \E p \in DOMAIN sync : ProcessPost(p)
  \/ \E p \in DOMAIN sync : EmbedPost(p)
  \/ \E p \in DOMAIN sync : UpsertChunk(p)
  \/ \E p \in DOMAIN sync : FinishPost(p)
  \/ \E p \in DOMAIN sync : EndRun(p)

SpecSync == InitSync /\ [][NextSync]_vars

\* Two workers run sync_blog_to_qdrant over the same feed at the same time,
\* once each, on a store that holds nothing yet.
InitSync2 ==
  /\ collections = {}
  /\ points = {}
  /\ ret = [op |-> "init"]
  /\ sync = [p \in {1, 2} |-> IdleWorker]

NextSync2 ==
  \/ \E p \in DOMAIN sync : sync[p].run = 0 /\ BeginRun(p)
  \/ \E p \in DOMAIN sync : FetchPosts(p)
  \/ \E p \in DOMAIN sync : ProcessPost(p)
  \/ \E p \in DOMAIN sync : EmbedPost(p)
  \/ \E p \in DOMAIN sync : UpsertChunk(p)
  \/ \E p \in DOMAIN sync : FinishPost(p)
  \/ \E p \in DOMAIN sync : EndRun(p)

SpecSync2 == InitSync2 /\ [][NextSync2]_vars

\* The feed after the first post was edited: same url and title, other text.
EditedPosts ==
  [Posts EXCEPT ![1].content = << <<1500, 500>>, <<3000>>, <<3000>> >>]

\* FetchPosts when the feed holds the edited post
FetchEditedPosts(p) ==
  /\ sync[p].pc = "started"
  /\ \E fault \in BOOLEAN, limit \in Limits :
       LET initial_stats == get_collection_stats(fault)
           posts == IF limit # None THEN SubSeq(EditedPosts, 1, limit[1]) ELSE EditedPosts
       IN sync' = [sync EXCEPT ![p].pc = "post", ![p].posts = posts, ![p].i = 1,
                               ![p].stats = NewStats(posts),
                               ![p].initial_count = points_count_of(initial_stats),
                               ![p].start_points = points]
  /\ UNCHANGED <<storeVars, ret>>

\* Runs of one worker over a feed whose first post may change between runs
NextSyncEdit ==
  \/ \E p \in DOMAIN sync : BeginRun(p)
  \/ \E p \in DOMAIN sync : FetchPosts(p)
  \/ \E p \in DOMAIN sync : FetchEditedPosts(p)
  \/ \E p \in DOMAIN sync : ProcessPost(p)
  \/ \E p \in DOMAIN sync : EmbedPost(p)
  \/ \E p \in DOMAIN sync : UpsertChunk(p)
  \/ \E p \in DOMAIN sync : FinishPost(p)
  \/ \E p \in DOMAIN sync : EndRun(p)

SpecSyncEdit == InitSync /\ [][NextSyncEdit]_vars

(***************************************************************************)
(* Properties of the vector-store wrapper, checked under Spec.             *)
(***************************************************************************)
StoredUnder(pts, chunk_id) == {p \in pts : p.id = string_to_uuid(chunk_id)}

\* the fields of the caller's metadata other than chunk_id appear unchanged
CarriesMetadata(payload, metadata) ==
  \A f \in DOMAIN metadata \ {"chunk_id"} : f \in DOMAIN payload /\ payload[f] = metadata[f]

\* C2: a successful upsert of a key that already has a point leaves the point
\* count unchanged, and retrieving the key then gives exactly one point, with
\* the vector and the payload of this last call.
C2_UpsertReplaces ==
  (ret.op = "upsert_document" /\ ret.val /\ StoredUnder(ret.pre, ret.chunk_id) # {})
    => /\ Cardinality(points) = Cardinality(ret.pre)
       /\ Cardinality(StoredUnder(points, ret.chunk_id)) = 1
       /\ \A p \in StoredUnder(points, ret.chunk_id) :
            /\ p.vector = ret.embedding
            /\ CarriesMetadata(p.payload, ret.metadata)
            /\ DOMAIN p.payload = DOMAIN ret.metadata \cup {"chunk_id"}

\* a second upsert of a key whose stored payload had another content
C2_Witness ==
  /\ ret.op = "upsert_document" /\ ret.val
  /\ "content" \in DOMAIN ret.metadata
  /\ \E p \in StoredUnder(ret.pre, ret.chunk_id) :
       "content" \in DOMAIN p.payload /\ p.payload.content # ret.metadata.content

\* every key string_to_uuid is tabulated for
UuidKeys ==
  {"blog:" \o d \o ":chunk_" \o ToString(i) : d \in {"a", "b", ""}, i \in 0..4}
    \cup {"test:post_1:chunk_0", "test:post_1:chunk_1", "never:seen:chunk_0"}

\* C3: distinct chunk keys map to distinct point ids, and a successful upsert
\* of a key no stored point was upserted under adds exactly one point.
C3_DistinctKeysDistinctPoints ==
  /\ \A k1, k2 \in UuidKeys : k1 # k2 => string_to_uuid(k1) # string_to_uuid(k2)
  /\ (ret.op = "upsert_document" /\ ret.val
        /\ \A p \in ret.pre : p.payload.chunk_id # ret.chunk_id)
       => Cardinality(points) = Cardinality(ret.pre) + 1

\* a second key has been upserted beside a first one
C3_Witness ==
  /\ ret.op = "upsert_document" /\ ret.val
  /\ ret.pre # {}
  /\ \A p \in ret.pre : p.payload.chunk_id # ret.chunk_id
  /\ Cardinality(points) = 2

\* C4 (as claimed): point_exists(k) returns True exactly when a point for k
\* is stored.
C4_ExistsIffStored ==
  ret.op = "point_exists" => (ret.val <=> StoredUnder(points, ret.chunk_id) # {})

\* C5: an upsert whose vector length is not the collection's dimension
\* returns False and leaves the stored points as they were.
C5_WrongDimensionRefused ==
  (ret.op = "upsert_document" /\ ret.embedding.len # vector_size)
    => ret.val = FALSE /\ points = ret.pre

\* a wrong-dimension upsert against an existing, non-empty collection, with
\* no remote failure
C5_Witness ==
  /\ ret.op = "upsert_document" /\ ret.embedding.len # vector_size
  /\ ~ret.fault /\ ret.existed /\ ret.pre # {}

\* C6: every stored point's payload has a chunk_id that maps to the point's
\* id, and after a successful upsert the point of the key carries that key.
C6_PayloadKeepsKey ==
  /\ \A p \in points :
       "chunk_id" \in DOMAIN p.payload /\ p.id = string_to_uuid(p.payload.chunk_id)
  /\ (ret.op = "upsert_document" /\ ret.val)
       => \E p \in points : p.id = string_to_uuid(ret.chunk_id)
                            /\ p.payload.chunk_id = ret.chunk_id

\* a point was written from metadata that carried another chunk_id
C6_Witness ==
  /\ ret.op = "upsert_document" /\ ret.val
  /\ "chunk_id" \in DOMAIN ret.metadata /\ ret.metadata.chunk_id # ret.chunk_id
  /\ StoredUnder(points, ret.chunk_id) # {}

\* C7 (as claimed): the chunk_id of every search result is the string key the
\* point was upserted under.
C7_ResultKeyIsChunkKey ==
  ret.op = "search" =>
    \A i \in DOMAIN ret.val : ret.val[i].chunk_id = ret.val[i].metadata.chunk_id

\* C8 (as claimed): every result satisfies each filter argument that is not
\* None.
Satisfies(payload, category, source, tags) ==
  /\ category # None => ("category" \in DOMAIN payload /\ payload.category = category[1])
  /\ source # None => ("source" \in DOMAIN payload /\ payload.source = source[1])
  /\ tags # None => ("tags" \in DOMAIN payload
                     /\ \E i \in DOMAIN payload.tags : \E j \in DOMAIN tags[1] :
                          payload.tags[i] = tags[1][j])

C8_SuppliedFiltersHold ==
  ret.op = "search" =>
    \A i \in DOMAIN ret.val :
      Satisfies(ret.val[i].metadata, ret.category, ret.source, ret.tags)

\* C8 (amended): every result satisfies each filter argument that is neither
\* None nor empty; an empty string or empty tag list filters nothing.
NonEmpty(opt, empty) == IF opt # None /\ opt[1] # empty THEN opt ELSE None

C8_NonEmptyFiltersHold ==
  ret.op = "search" =>
    \A i \in DOMAIN ret.val :
      Satisfies(ret.val[i].metadata, NonEmpty(ret.category, ""),
                NonEmpty(ret.source, ""), NonEmpty(ret.tags, <<>>))

\* a search with a source and a tags filter returned a point while another
\* stored point fails the filters
C8_Witness ==
  /\ ret.op = "search" /\ ret.val # <<>>
  /\ ret.source # None /\ ret.tags # None
  /\ \E p \in points : ~Satisfies(p.payload, ret.category, ret.source, ret.tags)

\* C9: search returns at most `limit` results, in non-increasing score order.
C9_LimitedAndSorted ==
  ret.op = "search" =>
    /\ Len(ret.val) <= ret.limit
    /\ \A i, j \in DOMAIN ret.val : i < j => ret.val[i].score >= ret.val[j].score

\* two results of different scores were returned
C9_Witness ==
  /\ ret.op = "search" /\ Len(ret.val) = 2
  /\ ret.val[1].score > ret.val[2].score

C11_CreateKeepsPoints ==
  ret.op = "create_collection" =>
    /\ (ret.existed /\ ~ret.recreate) =>
          /\ points = ret.pre
          /\ collection_name \in collections
          /\ (ret.fault # 1 => ret.val = "returned")
    /\ (points # ret.pre => ret.recreate)

\* create_collection(recreate=False) returned on a collection that holds points
C11_Witness ==
  /\ ret.op = "create_collection" /\ ret.existed /\ ~ret.recreate
  /\ ret.val = "returned" /\ ret.pre # {} /\ points = ret.pre

\* C27: when the remote call of upsert_document, search, delete_document or
\* get_collection_stats fails, the method does not come back with a normal
\* return value (False, an empty list, an empty dict).
C27_RemoteFailureNotReturned ==
  /\ (ret.op \in {"upsert_document", "delete_document"} /\ ret.fault) => ret.val # FALSE
  /\ (ret.op = "search" /\ ret.fault) => ret.val # <<>>
  /\ (ret.op = "get_collection_stats" /\ ret.fault) => ret.val # None

(***************************************************************************)
(* Properties of the chunker and of the embedding generator, checked under *)
(* SpecDoc.                                                                *)
(***************************************************************************)
\* C12: for a text of at most max_tokens tokens chunk_text returns one chunk:
\* its text is the input unchanged, chunk_index 0, total_chunks 1 and
\* chunk_id doc_id + ":chunk_0".
C12_ShortTextOneChunk ==
  (ret.op = "chunk_text" /\ count_tokens(ret.text) <= max_tokens) =>
    /\ ret.raised = "none"
    /\ Len(ret.val) = 1
    /\ ret.val[1].text = ret.text
    /\ ret.val[1].chunk_index = 0
    /\ ret.val[1].total_chunks = 1
    /\ ret.val[1].chunk_id = ret.doc_id \o ":chunk_0"

\* a text within the budget that has a blank paragraph and whitespace around
\* another came back as it was
C12_Witness ==
  /\ ret.op = "chunk_text" /\ count_tokens(ret.text) <= max_tokens
  /\ Len(ret.text) = 3
  /\ _split_by_paragraphs(ret.text) # ret.text
  /\ Len(_split_by_paragraphs(ret.text)) = 2
  /\ Len(ret.val) = 1 /\ ret.val[1].text = ret.text

\* the text has no paragraph with anything but whitespace in it
Blank(text) == _split_by_paragraphs(text) = <<>>

\* C13: chunk_text of an empty or whitespace-only text fails with an
\* EmptyInputError and returns no chunk.
C13_EmptyInputFails ==
  (ret.op = "chunk_text" /\ Blank(ret.text)) =>
    (ret.raised = "EmptyInputError" /\ ret.val = <<>>)

\* C14: in a list chunk_text returns, the n-th chunk has chunk_index n - 1,
\* total_chunks is the length of the list, parent_id is doc_id and chunk_id
\* is parent_id + ":chunk_" + chunk_index.
C14_ChunkNumbering ==
  (ret.op = "chunk_text" /\ ret.raised = "none") =>
    /\ Len(ret.val) >= 1
    /\ \A n \in DOMAIN ret.val :
         /\ ret.val[n].chunk_index = n - 1
         /\ ret.val[n].total_chunks = Len(ret.val)
         /\ ret.val[n].parent_id = ret.doc_id
         /\ ret.val[n].chunk_id =
              ret.val[n].parent_id \o ":chunk_" \o ToString(ret.val[n].chunk_index)

\* a text was cut into three chunks
C14_Witness ==
  /\ ret.op = "chunk_text" /\ ret.raised = "none"
  /\ Len(ret.val) = 3 /\ ret.val[3].chunk_id = ret.doc_id \o ":chunk_2"

\* the chunk is one sentence that alone is over the budget
OversizedSentence(chunk) ==
  /\ Len(chunk.text) = 1 /\ Len(chunk.text[1]) = 1
  /\ chunk.text[1][1] > max_tokens
  /\ chunk.tokens = chunk.text[1][1]

\* C15: every chunk chunk_text returns has tokens <= max_tokens unless it is
\* one sentence that alone exceeds max_tokens; for each such sentence of the
\* input chunk_text does not raise and returns a chunk that is that sentence.
C15_ChunksWithinBudget ==
  ret.op = "chunk_text" =>
    /\ \A n \in DOMAIN ret.val :
         ret.val[n].tokens <= max_tokens \/ OversizedSentence(ret.val[n])
    /\ \A i \in DOMAIN ret.text : \A j \in DOMAIN ret.text[i] :
         ret.text[i][j] > max_tokens =>
           /\ ret.raised = "none"
           /\ \E n \in DOMAIN ret.val : ret.val[n].text = << <<ret.text[i][j]>> >>

\* an oversized sentence was returned next to a chunk of two paragraphs that
\* fill the budget exactly
C15_Witness ==
  /\ ret.op = "chunk_text" /\ ret.raised = "none"
  /\ \E n \in DOMAIN ret.val : OversizedSentence(ret.val[n])
  /\ \E n \in DOMAIN ret.val :
       Len(ret.val[n].text) = 2 /\ ret.val[n].tokens = max_tokens

\* the tokens of a unit, and of a list of units, counted as the claims do
UnitTokens(unit) == SumSeq([i \in DOMAIN unit |-> IF unit[i] < 0 THEN 0 - unit[i] ELSE unit[i]])

UnitsTokens(units) == SumSeq([i \in DOMAIN units |-> UnitTokens(units[i])])

\* chunk_text took the branch that splits the text
WasSplit == ret.op = "chunk_text" /\ ret.raised = "none"
              /\ count_tokens(ret.text) > max_tokens

\* C21: in a text that is split, a chunk's tokens are the sum of its units'
\* tokens; a chunk of several units is within max_tokens (a unit is added only
\* while the total stays <= max_tokens); and for consecutive chunks the tokens
\* of the earlier one plus the tokens of the first unit of the later one
\* exceed max_tokens (a chunk is closed only when the next unit does not fit).
C21_GreedyInclusive ==
  WasSplit =>
    /\ \A n \in DOMAIN ret.val :
         /\ ret.val[n].tokens = UnitsTokens(ret.val[n].text)
         /\ Len(ret.val[n].text) > 1 => ret.val[n].tokens <= max_tokens
    /\ \A n \in 1..(Len(ret.val) - 1) :
         ret.val[n].tokens + UnitTokens(ret.val[n + 1].text[1]) > max_tokens

\* three paragraphs of 3000 tokens came back as a chunk of two that fills the
\* budget and a chunk of one
C21_Witness ==
  /\ WasSplit
  /\ ret.text = << <<3000>>, <<3000>>, <<3000>> >>
  /\ Len(ret.val) = 2
  /\ ret.val[1].text = << <<3000>>, <<3000>> >> /\ ret.val[1].tokens = 6000
  /\ ret.val[2].text = << <<3000>> >>

\* the units of a text: its paragraphs that are not blank, without the
\* whitespace around them, each paragraph over the budget replaced by its
\* sentences
RECURSIVE TrimLeft(_)
TrimLeft(para) == IF para # <<>> /\ Head(para) < 0 THEN TrimLeft(Tail(para)) ELSE para

RECURSIVE TrimRight(_)
TrimRight(para) ==
  IF para # <<>> /\ para[Len(para)] < 0
    THEN TrimRight(SubSeq(para, 1, Len(para) - 1)) ELSE para

RECURSIVE SentencesOf(_)
SentencesOf(para) ==
  IF para = <<>> THEN <<>>
  ELSE (IF Head(para) > 0 THEN << <<Head(para)>> >> ELSE <<>>) \o SentencesOf(Tail(para))

RECURSIVE UnitsOf(_)
UnitsOf(text) ==
  IF text = <<>> THEN <<>>
  ELSE LET para == TrimRight(TrimLeft(Head(text)))
       IN (IF para = <<>> THEN <<>>
           ELSE IF UnitTokens(para) > max_tokens THEN SentencesOf(para)
           ELSE <<para>>) \o UnitsOf(Tail(text))

\* the units of a list of chunks, in chunk order
RECURSIVE ChunkUnits(_)
ChunkUnits(chunks) ==
  IF chunks = <<>> THEN <<>> ELSE Head(chunks).text \o ChunkUnits(Tail(chunks))

\* C22: for a text that is split, the units of the returned chunks, taken in
\* chunk order, are exactly the units of the text in their order: none is
\* left out, moved, repeated or cut.
C22_NoContentDropped ==
  WasSplit => ChunkUnits(ret.val) = UnitsOf(ret.text)

\* a text with a blank paragraph, a paragraph of three sentences over the
\* budget and a paragraph within it came back in two chunks
C22_Witness ==
  /\ WasSplit
  /\ ret.text = << <<>>, <<2000, 2500, 2000>>, <<-1, 50, -1>> >>
  /\ Len(ret.val) = 2
  /\ ChunkUnits(ret.val) = << <<2000>>, <<2500>>, <<2000>>, <<50>> >>

C16_EmptyBatchNoCall ==
  ret.op = "generate_embeddings_batch" =>
    /\ ret.texts = <<>> => (~ret.raised /\ ret.val = <<>> /\ ret.calls = 0)
    /\ ret.texts # <<>> => ret.calls = 1

\* generate_embeddings_batch([]) returned
C16_Witness ==
  /\ ret.op = "generate_embeddings_batch" /\ ret.texts = <<>>
  /\ ~ret.raised /\ ret.calls = 0

\* C17: when generate_embeddings_batch returns, its result has one vector per
\* input text, the i-th being the vector of the i-th text, each of 1536
\* components; an answer with another number of vectors or with a vector of
\* another dimension makes it raise ValueError and return nothing.  The
\* dimension check of generate_embedding does the same for one text.
C17_BatchValidated ==
  /\ ret.op = "generate_embeddings_batch" =>
       /\ ~ret.raised =>
            /\ Len(ret.val) = Len(ret.texts)
            /\ \A i \in DOMAIN ret.val :
                 ret.val[i] = Embed(ret.texts[i]) /\ ret.val[i].len = 1536
       /\ (ret.texts # <<>> /\ ret.fault \in {2, 3}) =>
            (ret.raised /\ ret.error = "ValueError" /\ ret.val = <<>>)
  /\ ret.op = "generate_embedding" =>
       /\ ~ret.raised => (ret.val = <<Embed(ret.texts[1])>> /\ ret.val[1].len = 1536)
       /\ ret.fault = 3 => (ret.raised /\ ret.error = "ValueError" /\ ret.val = <<>>)

\* a batch of two different texts whose answer was one vector short was refused
C17_Witness ==
  /\ ret.op = "generate_embeddings_batch" /\ Len(ret.texts) = 2
  /\ ret.texts[1] # ret.texts[2]
  /\ ret.fault = 2 /\ ret.raised /\ ret.error = "ValueError"

ExpectedKeys(post) ==
  LET chunks == chunk_text(full_text(post), doc_id_of(post), post_metadata(post))
  IN {chunks[n].chunk_id : n \in DOMAIN chunks}

\* every chunk of the post has a point
FullyStored(post, pts) ==
  \A k \in ExpectedKeys(post) : \E q \in pts : q.payload.chunk_id = k

PointsOfPost(post, pts) == {q \in pts : q.payload.url = post.url}

\* C1: during and after a sync run, a post whose chunks were all stored when
\* the run started has exactly the points it had then; when that is so for
\* every post of the feed, the collection's point count is the count at the
\* start of the run.
C1_ReingestionAddsNoPoints ==
  \A p \in DOMAIN sync :
    sync[p].pc \in {"post", "embed", "upsert", "done"} =>
      /\ \A n \in DOMAIN Posts :
           FullyStored(Posts[n], sync[p].start_points) =>
             PointsOfPost(Posts[n], points) = PointsOfPost(Posts[n], sync[p].start_points)
      /\ (\A n \in DOMAIN Posts : FullyStored(Posts[n], sync[p].start_points))
           => Cardinality(points) = Cardinality(sync[p].start_points)

\* a later run ended after it embedded and upserted again a post that was
\* stored in full when the run started, and skipped another one
C1_Witness ==
  \E p \in DOMAIN sync :
    /\ sync[p].pc = "done" /\ sync[p].run >= 2
    /\ \A n \in DOMAIN Posts : FullyStored(Posts[n], sync[p].start_points)
    /\ sync[p].stats.newly_embedded >= 1
    /\ sync[p].stats.skipped_existing >= 1
    /\ sync[p].stats.errors = 0

\* C19: when point_exists(doc_id + ":chunk_0") returns True for a post, that
\* pass of the loop ends there: the stored points are as they were, the worker
\* goes on to the next post without entering the embedding or the upsert
\* step, nothing is added to the embedded counts, and the post is counted in
\* skipped_existing and listed with status "existing".
C19_ExistingPostSkipped ==
  [][\A p \in DOMAIN sync :
       (/\ sync[p].pc = "post" /\ sync[p].i <= Len(sync[p].posts)
        /\ sync'[p] # sync[p]
        /\ ret'.op = "point_exists" /\ ret'.worker = p /\ ret'.val)
       => /\ points' = points
          /\ sync'[p].pc = "post" /\ sync'[p].i = sync[p].i + 1
          /\ sync'[p].chunks = <<>>
          /\ sync'[p].stats.skipped_existing = sync[p].stats.skipped_existing + 1
          /\ sync'[p].stats.newly_embedded = sync[p].stats.newly_embedded
          /\ sync'[p].stats.total_chunks = sync[p].stats.total_chunks
          /\ sync'[p].stats.total_tokens = sync[p].stats.total_tokens
          /\ sync'[p].stats.errors = sync[p].stats.errors
          /\ sync'[p].processed_posts = Append(sync[p].processed_posts,
                [title |-> sync[p].posts[sync[p].i].title,
                 url |-> sync[p].posts[sync[p].i].url,
                 doc_id |-> doc_id_of(sync[p].posts[sync[p].i]),
                 status |-> "existing"])]_vars

\* a run found the two-chunk post stored and skipped it
C19_Witness ==
  \E p \in DOMAIN sync :
    /\ ret.op = "point_exists" /\ ret.worker = p /\ ret.val
    /\ ret.chunk_id = "blog:a:chunk_0"
    /\ sync[p].pc = "post" /\ sync[p].i = 2
    /\ sync[p].stats.skipped_existing = 1 /\ sync[p].stats.newly_embedded = 0
    /\ sync[p].processed_posts[1].status = "existing"
    /\ Cardinality(PointsOfPost(Posts[1], points)) = 2

\* the post the worker is at
PostAt(p) == sync[p].posts[sync[p].i]

\* C24: the embedding step is entered only from an existence check of the
\* post's chunk_0 key that returned False; the upsert loop is entered only
\* from the embedding step, after one batch request, with one entry per chunk
\* of the post's text, the n-th under doc_id + ":chunk_" + (n - 1) and with the
\* vector of the n-th chunk's text; each pass of the upsert loop upserts the
\* next entry under its chunk_id with its vector; the loop is left only after
\* the last entry; and the stored points change in the upsert loop only.
C24_EmbedThenUpsertEachChunk ==
  [][\A p \in DOMAIN sync :
       /\ (sync'[p].pc = "embed" /\ sync[p].pc # "embed") =>
            /\ sync[p].pc = "post"
            /\ ret'.op = "point_exists" /\ ret'.worker = p /\ ~ret'.val
            /\ ret'.chunk_id = doc_id_of(PostAt(p)) \o ":chunk_0"
       /\ (sync'[p].pc = "upsert" /\ sync[p].pc # "upsert") =>
            LET chunks == chunk_text(full_text(PostAt(p)), doc_id_of(PostAt(p)),
                                     post_metadata(PostAt(p)))
            IN /\ sync[p].pc = "embed"
               /\ ret'.op = "embed_document_with_chunking" /\ ret'.worker = p
               /\ ~ret'.raised /\ ret'.calls = 1
               /\ sync'[p].k = 1
               /\ Len(sync'[p].chunks) = Len(chunks)
               /\ \A n \in DOMAIN chunks :
                    /\ sync'[p].chunks[n].chunk_id =
                         doc_id_of(PostAt(p)) \o ":chunk_" \o ToString(n - 1)
                    /\ sync'[p].chunks[n].text = chunks[n].text
                    /\ sync'[p].chunks[n].embedding = Embed(chunks[n].text)
                    /\ sync'[p].chunks[n].metadata = post_metadata(PostAt(p))
       /\ (sync[p].pc = "upsert" /\ sync'[p] # sync[p]
             /\ sync[p].k <= Len(sync[p].chunks)) =>
            /\ ret'.op = "upsert_document" /\ ret'.worker = p
            /\ ret'.chunk_id = sync[p].chunks[sync[p].k].chunk_id
            /\ ret'.embedding = sync[p].chunks[sync[p].k].embedding
            /\ ret'.metadata = sync[p].chunks[sync[p].k].metadata
            /\ sync'[p].k = sync[p].k + 1
            /\ sync'[p].pc = "upsert" /\ sync'[p].chunks = sync[p].chunks
       /\ (sync[p].pc = "upsert" /\ sync'[p].pc # "upsert") =>
            sync[p].k = Len(sync[p].chunks) + 1
       /\ points' # points =>
            (ret'.op = "upsert_document" /\ sync[ret'.worker].pc = "upsert")]_vars

\* both chunks of the two-chunk post have been upserted, the second one last,
\* and each stored point has the vector of its chunk's text
C24_Witness ==
  \E p \in DOMAIN sync :
    /\ sync[p].pc = "upsert" /\ sync[p].k = 3 /\ Len(sync[p].chunks) = 2
    /\ sync[p].chunks[1].embedding # sync[p].chunks[2].embedding
    /\ ret.op = "upsert_document" /\ ret.val /\ ret.chunk_id = "blog:a:chunk_1"
    /\ \A n \in 1..2 :
         \E q \in points : /\ q.payload.chunk_id = sync[p].chunks[n].chunk_id
                           /\ q.vector = Embed(sync[p].chunks[n].text)

\* the chunk keys a summary entry of status "new" stands for
ReportedKeys(entry) ==
  {entry.doc_id \o ":chunk_" \o ToString(j) : j \in 0..(entry.chunks - 1)}

\* C25: for every post a run lists as newly embedded, every chunk counted in
\* the entry's 'chunks' (and so in total_chunks) has a point in the store.
C25_ReportedChunksWritten ==
  \A p \in DOMAIN sync : \A n \in DOMAIN sync[p].processed_posts :
    sync[p].processed_posts[n].status = "new" =>
      \A k \in ReportedKeys(sync[p].processed_posts[n]) :
        \E q \in points : q.payload.chunk_id = k

\* C28: when the existence check of a post's chunk_0 key has returned True,
\* every chunk of that post has a point in the store.
C28_SkippedPostFullyStored ==
  (ret.op = "point_exists" /\ ret.val) =>
    \A n \in DOMAIN Posts :
      ret.chunk_id = doc_id_of(Posts[n]) \o ":chunk_0" => FullyStored(Posts[n], points)

\* C29: two posts with different urls get different doc_ids.
C29_DistinctUrlsDistinctDocIds ==
  (ret.op = "doc_id" /\ ret.urls[1] # ret.urls[2]) => ret.doc_ids[1] # ret.doc_ids[2]

(***************************************************************************)
(* A property of runs over an edited feed, checked under SpecSyncEdit.     *)
(***************************************************************************)
\* C30: during and after a run, every point that was stored at the start of
\* the run for a post of the feed whose chunk_0 key was stored then is still
\* in the store as it was, whatever the post's text is now.
C30_IndexedPostUntouched ==
  \A p \in DOMAIN sync :
    sync[p].pc \in {"post", "embed", "upsert", "done"} =>
      \A n \in DOMAIN sync[p].posts :
        (\E q \in sync[p].start_points :
           q.payload.chunk_id = doc_id_of(sync[p].posts[n]) \o ":chunk_0")
        => \A q \in PointsOfPost(sync[p].posts[n], sync[p].start_points) : q \in points

(***************************************************************************)
(* Properties of two concurrent runs, checked under SpecSync2.             *)
(***************************************************************************)
PointsUnder(chunk_id) == {q \in points : q.payload.chunk_id = chunk_id}

\* the worker has ended its run without an error
DoneClean(p) == sync[p].pc = "done" /\ sync[p].stats.errors = 0

\* C20: whatever the interleaving of two workers that ingest the same feed
\* into an empty store, no chunk key ever has two points; after a successful
\* upsert the key's one point holds that upsert's vector and payload; and
\* when both workers have ended without an error every chunk key of every
\* post they processed has exactly one point.
C20_NoDuplicatePoints ==
  /\ \A q1, q2 \in points : q1.payload.chunk_id = q2.payload.chunk_id => q1 = q2
  /\ (ret.op = "upsert_document" /\ ret.val) =>
       \E q \in points :
         /\ PointsUnder(ret.chunk_id) = {q}
         /\ q.vector = ret.embedding
         /\ q.payload = upsert_payload(ret.metadata, ret.chunk_id)
  /\ (\A p \in DOMAIN sync : DoneClean(p)) =>
       \A p \in DOMAIN sync : \A n \in DOMAIN sync[p].posts :
         \A k \in ExpectedKeys(sync[p].posts[n]) : Cardinality(PointsUnder(k)) = 1

\* both workers embedded and stored the two-chunk post, and the store holds
\* its two points
C20_Witness ==
  /\ \A p \in DOMAIN sync :
       /\ DoneClean(p)
       /\ \E n \in DOMAIN sync[p].processed_posts :
            /\ sync[p].processed_posts[n].doc_id = "blog:a"
            /\ sync[p].processed_posts[n].status = "new"
  /\ Cardinality(DOMAIN sync) = 2
  /\ Cardinality(PointsOfPost(Posts[1], points)) = 2

\* C26: an existence check whose remote call does not fail answers from the
\* stored points alone, whatever the other worker is doing, and a False answer
\* sends the worker to the embedding step; an embedding call that returns
\* sends it to the upsert loop; and every pass of the upsert loop upserts the
\* next chunk without looking at the store again.
C26_CheckThenActNotAtomic ==
  [][\A p \in DOMAIN sync :
       /\ (/\ sync[p].pc = "post" /\ sync[p].i <= Len(sync[p].posts)
           /\ sync'[p] # sync[p]
           /\ ret'.op = "point_exists" /\ ret'.worker = p /\ ~ret'.fault)
          => /\ ret'.val = (PointsUnder(ret'.chunk_id) # {})
             /\ ~ret'.val => sync'[p].pc = "embed"
       /\ (/\ sync[p].pc = "embed" /\ sync'[p] # sync[p]
           /\ ret'.op = "embed_document_with_chunking" /\ ret'.worker = p
           /\ ~ret'.raised)
          => (ret'.calls = 1 /\ sync'[p].pc = "upsert" /\ sync'[p].k = 1)
       /\ (/\ sync[p].pc = "upsert" /\ sync[p].k <= Len(sync[p].chunks)
           /\ sync'[p] # sync[p])
          => /\ ret'.op = "upsert_document" /\ ret'.worker = p
             /\ ret'.chunk_id = sync[p].chunks[sync[p].k].chunk_id]_vars

\* both workers have passed the existence check of the same post on a store
\* that holds nothing, both have made the embedding call, and the next step
\* of each is its first upsert
C26_Witness ==
  /\ Cardinality(DOMAIN sync) = 2
  /\ collection_name \in collections /\ points = {}
  /\ \A p \in DOMAIN sync :
       /\ sync[p].pc = "upsert" /\ sync[p].k = 1 /\ sync[p].i = 1
       /\ doc_id_of(sync[p].posts[1]) = "blog:a"
       /\ Len(sync[p].chunks) = 2

====
